---- MODULE Spec2Model ----
(***************************************************************************)
(* A model of function_generator.py: the generator that walks every        *)
(* signature (argument tuple of length 0..4 over the 18 non-void types,    *)
(* times 19 return types), filters it, synthesizes the interface name and  *)
(* its methods, and writes one file per surviving signature.               *)
(*                                                                         *)
(* One state of the model is the script after one iteration of one of its  *)
(* two nested loops: pc = "argv" after an iteration of the argv loop that  *)
(* ran the input filter on (argc, argv), pc = "ret" after an iteration of  *)
(* the ret loop on (argc, argv, ret).  `outcome` names the `continue` the  *)
(* iteration took, or "admitted" / "emitted" when it took none.            *)
(***************************************************************************)
EXTENDS Integers, Sequences, FiniteSets, TLC

VARIABLES
    pc,                 \* "start", "argv", "ret" or "done"
    argc,               \* loop variable of line 213
    argv,               \* loop variable of line 216, a tuple of types
    ret,                \* loop variable of line 234
    outcome,            \* what the last iteration did with its candidate
    names,              \* the list `names` (line 211)
    files,              \* the files written so far, relative to base_pkg_dir
    name,               \* local `name` of the last named signature
    mthd,               \* local `mthd` of the last named signature
    static_methods,     \* keys of the dict `static_methods` of the last emitted file
    instance_methods,   \* keys of the dict `instance_methods` of the last emitted file
    package,            \* local `package` of the last emitted file
    operation,          \* local `operation`, the role noun of the documentation
    p_list,             \* local `p_list`: the generic parameter symbols
    a_list              \* local `a_list`: (type, name, abbreviated name) per entry

vars == <<pc, argc, argv, ret, outcome, names, files, name, mthd,
          static_methods, instance_methods, package, operation, p_list, a_list>>

(***************************************************************************)
(* The tables of lines 31-112.  Python's None is rendered by an f-string   *)
(* as the text "None".                                                     *)
(***************************************************************************)
None == "None"

type_names ==
    ("void" :> None) @@ ("object" :> "") @@ ("boolean" :> "Boolean") @@
    ("byte" :> "Byte") @@ ("char" :> "Char") @@ ("double" :> "Double") @@
    ("float" :> "Float") @@ ("int" :> "Int") @@ ("long" :> "Long") @@
    ("short" :> "Short") @@ ("object[]" :> "ArraySegment") @@
    ("boolean[]" :> "BooleanArraySegment") @@ ("byte[]" :> "ByteArraySegment") @@
    ("char[]" :> "CharArraySegment") @@ ("double[]" :> "DoubleArraySegment") @@
    ("float[]" :> "FloatArraySegment") @@ ("int[]" :> "IntArraySegment") @@
    ("long[]" :> "LongArraySegment") @@ ("short[]" :> "ShortArraySegment")

types ==
    << "void", "object", "boolean", "byte", "char", "double", "float", "int",
       "long", "short", "object[]", "boolean[]", "byte[]", "char[]", "double[]",
       "float[]", "int[]", "long[]", "short[]" >>

\* Python tuples are indexed from 0.
fn_ordinals == [n \in 0..4 |-> << None, "", "Bi", "Tri", "Tetra" >>[n + 1]]

cnt_ordinals == [n \in 0..4 |-> << None, None, "two", "three", "four" >>[n + 1]]

op_ordinals == [n \in 0..4 |-> << None, "Unary", "Binary", "Ternary", "Quaternary" >>[n + 1]]

built_ins ==
    { "Runnable", "BiConsumer", "BiFunction", "BinaryOperator", "BiPredicate",
      "BooleanSupplier", "Consumer", "DoubleBinaryOperator", "DoubleConsumer",
      "DoubleFunction", "DoublePredicate", "DoubleSupplier", "DoubleToIntFunction",
      "DoubleToLongFunction", "DoubleUnaryOperator", "Function", "IntBinaryOperator",
      "IntConsumer", "IntFunction", "IntPredicate", "IntSupplier",
      "IntToDoubleFunction", "IntToLongFunction", "IntUnaryOperator",
      "LongBinaryOperator", "LongConsumer", "LongFunction", "LongPredicate",
      "LongSupplier", "LongToDoubleFunction", "LongToIntFunction", "LongUnaryOperator",
      "ObjDoubleConsumer", "ObjIntConsumer", "ObjLongConsumer", "Predicate", "Supplier",
      "ToDoubleBiFunction", "ToDoubleFunction", "ToIntBiFunction", "ToIntFunction",
      "ToLongBiFunction", "ToLongFunction", "UnaryOperator" }

in_params == [n \in 0..4 |-> << None, "T", "U", "V", "W" >>[n + 1]]

out_params == [n \in 0..4 |-> << None, "R", "S", "Q", "P" >>[n + 1]]

elem_params == [n \in 0..4 |-> << None, "E", "F", "G", "H" >>[n + 1]]

\* range(0, 4 + 1) of line 213
MaxArgc == 4

(***************************************************************************)
(* Helpers for Python's built-ins.                                         *)
(***************************************************************************)
\* s.endswith(suf)
endswith(s, suf) ==
    /\ Len(s) >= Len(suf)
    /\ SubSeq(s, Len(s) - Len(suf) + 1, Len(s)) = suf

\* set(t) for a tuple t
set(t) == { t[i] : i \in 1..Len(t) }

\* t[1:] for a tuple t
rest(t) == [i \in 1..(Len(t) - 1) |-> t[i + 1]]

\* p.lower() for the symbols of in_params
lower == ("T" :> "t") @@ ("U" :> "u") @@ ("V" :> "v") @@ ("W" :> "w")

\* str(n) for the counts of itertools.count(1) that are used
str == [n \in 1..4 |-> << "1", "2", "3", "4" >>[n]]

\* the position of a type in `types`
TypeIndex(t) == CHOOSE i \in 1..Len(types) : types[i] = t

\* sum((1 for a in argv if a.endswith("[]")))
ArrayCount(v) == Cardinality({ i \in 1..Len(v) : endswith(v[i], "[]") })

\* True in (a.endswith("[]") for a in argv)
HasArray(v) == \E i \in 1..Len(v) : endswith(v[i], "[]")

(***************************************************************************)
(* The enumeration: itertools.product(types[1:], repeat=argc), the last    *)
(* position varying fastest.                                               *)
(***************************************************************************)
\* FirstTuple over types instead of types[1:]
FirstTupleWithVoid(n) == [i \in 1..n |-> types[1]]

FirstTuple(n) == [i \in 1..n |-> types[2]]

LastTuple(v) == \A i \in 1..Len(v) : v[i] = types[Len(types)]

NextTuple(v) ==
    LET k == CHOOSE i \in 1..Len(v) :
                 /\ v[i] # types[Len(types)]
                 /\ \A j \in (i + 1)..Len(v) : v[j] = types[Len(types)]
    IN  [i \in 1..Len(v) |->
            IF i < k THEN v[i]
            ELSE IF i = k THEN types[TypeIndex(v[i]) + 1]
            ELSE types[2]]

(***************************************************************************)
(* Filter input, lines 219-232: the three `continue`s of the argv loop.    *)
(***************************************************************************)
\* MixedArgs with `and` written for the `or` of line 223
MixedArgsBothTests(c, v) ==
    /\ c > 1
    /\ Cardinality(set(v)) > 1
    /\ (v[1] # "object" /\ Cardinality(set(rest(v))) > 1)

\* MixedArgs without the exception for a leading object
MixedArgsNoException(c, v) == c > 1 /\ Cardinality(set(v)) > 1

\* lines 220-226: exclude mixed argument types unless obj + 1 other type
MixedArgs(c, v) ==
    /\ c > 1
    /\ Cardinality(set(v)) > 1
    /\ (v[1] # "object" \/ Cardinality(set(rest(v))) > 1)

\* ExtendedArity with the arity test off by one
ExtendedArityOffByOne(c, v) == c > 3 /\ set(v) # {"object"}

\* ExtendedArity admitting every uniform tuple, not only the all-object one
ExtendedArityAnyUniform(c, v) == c > 2 /\ Cardinality(set(v)) # 1

\* lines 227-229: exclude more than two args unless all objs
ExtendedArity(c, v) == c > 2 /\ set(v) # {"object"}

\* TooManyArrays with the count off by one
TooManyArraysOffByOne(v) == ArrayCount(v) > 2

\* lines 230-232: exclude more than one array segment argument
TooManyArrays(v) == ArrayCount(v) > 1

\* the first `continue` taken, or "admitted"
FilterInput(c, v) ==
    IF MixedArgs(c, v) THEN "mixed"
    ELSE IF ExtendedArity(c, v) THEN "arity"
    ELSE IF TooManyArrays(v) THEN "arrays"
    ELSE "admitted"

(***************************************************************************)
(* Filter output, lines 235-262: the four `continue`s of the ret loop.     *)
(***************************************************************************)
\* lines 236-238: exclude array segment result
RetIsArray(r) == endswith(r, "[]")

\* ArrayRetExcluded without the element-type exception of line 242
ArrayRetExcludedNoElement(v, r) ==
    r \notin {"object", "boolean", "void", "int", "long", "double"}

\* lines 240-248, under an array segment argument
ArrayRetExcluded(v, r) ==
    /\ r \notin {"object", "boolean", "void", "int", "long", "double"}
    /\ (r \o "[]") \notin set(v)

\* ScalarRetExcluded without the all-object exception of line 257
ScalarRetExcludedNoException(c, v, r) ==
    /\ c > 1
    /\ r \notin {"object", "boolean", "void"}
    /\ r \notin set(v)

\* lines 250-259, under no array segment argument
ScalarRetExcluded(c, v, r) ==
    /\ c > 1
    /\ r \notin {"object", "boolean", "void"}
    /\ r \notin set(v)
    /\ (c > 2 \/ set(v) # {"object"})

\* ExtendedRetExcluded with void let through
ExtendedRetExcludedAllowsVoid(c, r) == c > 2 /\ r \notin {"object", "boolean", "void"}

\* lines 260-262, under no array segment argument
ExtendedRetExcluded(c, r) == c > 2 /\ r \notin {"object", "boolean"}

\* the first `continue` taken, or "admitted"
FilterOutput(c, v, r) ==
    IF RetIsArray(r) THEN "ret_array"
    ELSE IF HasArray(v)
         THEN IF ArrayRetExcluded(v, r) THEN "array_ret" ELSE "admitted"
    ELSE IF ScalarRetExcluded(c, v, r) THEN "scalar_ret"
    ELSE IF ExtendedRetExcluded(c, r) THEN "extended_ret"
    ELSE "admitted"

(***************************************************************************)
(* Name synthesis, lines 264-318.                                          *)
(***************************************************************************)
\* ArgFragment without the "Obj" fragment
ArgFragmentNoObj(a) == type_names[a]

\* "Obj" if a == "object" else type_names[a]
ArgFragment(a) == IF a = "object" THEN "Obj" ELSE type_names[a]

\* "".join(("Obj" if a == "object" else type_names[a] for a in argv))
RECURSIVE JoinFragments(_)
JoinFragments(v) ==
    IF v = << >> THEN "" ELSE ArgFragment(Head(v)) \o JoinFragments(Tail(v))

\* the "Consumer" / "Predicate" / "Function" names of lines 273-281, 287-295, 298-306
PlainName(c, v, suffix) ==
    IF Cardinality(set(v)) = 1
    THEN type_names[v[1]] \o fn_ordinals[c] \o suffix
    ELSE JoinFragments(v) \o suffix

\* lines 284
OperatorName(c, v) == type_names[v[1]] \o op_ordinals[c] \o "Operator"

\* lines 309-317
ToName(c, v, r) ==
    IF Cardinality(set(v)) = 1
    THEN type_names[v[1]] \o "To" \o type_names[r] \o fn_ordinals[c] \o "Function"
    ELSE JoinFragments(v) \o "To" \o type_names[r] \o "Function"

Name(c, v, r) ==
    IF c = 0
    THEN IF r = "void" THEN "Runnable" ELSE type_names[r] \o "Supplier"
    ELSE IF r = "void" THEN PlainName(c, v, "Consumer")
    ELSE IF r # "object" /\ {r} = set(v) THEN OperatorName(c, v)
    ELSE IF r = "boolean" THEN PlainName(c, v, "Predicate")
    ELSE IF r = "object" THEN PlainName(c, v, "Function")
    ELSE ToName(c, v, r)

Mthd(c, v, r) ==
    IF c = 0
    THEN IF r = "void" THEN "run"
         ELSE IF r # "object" THEN "getAs" \o type_names[r] ELSE "get"
    ELSE IF r = "void" THEN "accept"
    ELSE IF r # "object" /\ {r} = set(v) THEN "applyAs" \o type_names[r]
    ELSE IF r = "boolean" THEN "test"
    ELSE IF r = "object" THEN "apply"
    ELSE "applyAs" \o type_names[r]

\* the keys with which type_names[...] is read in lines 270-318
TypeNameLookups(c, v, r) ==
    LET joined == IF Cardinality(set(v)) = 1 THEN {v[1]} ELSE set(v) \ {"object"}
    IN  IF c = 0
        THEN IF r = "void" THEN {} ELSE {r}
        ELSE IF r = "void" THEN joined
        ELSE IF r # "object" /\ {r} = set(v) THEN {v[1], r}
        ELSE IF r = "boolean" THEN joined
        ELSE IF r = "object" THEN joined
        ELSE joined \cup {r}

\* the indices with which fn_ordinals[...] and op_ordinals[...] are read in
\* lines 274, 284, 288, 299, 310
OrdinalLookups(c, v, r) ==
    IF c = 0 THEN {}
    ELSE IF r # "void" /\ r # "object" /\ {r} = set(v) THEN {c}
    ELSE IF Cardinality(set(v)) = 1 THEN {c}
    ELSE {}

\* the indices with which cnt_ordinals[...] is read in lines 942-963
CntOrdinalLookups(c, v) ==
    IF c = 0 \/ c = 1 THEN {}
    ELSE IF Cardinality(set(v)) = 1 THEN {c}
    ELSE {}

\* IsBuiltIn with "Runnable" missing from the reserved names
IsBuiltInButRunnable(n) == n \in built_ins \ {"Runnable"}

\* line 320
IsBuiltIn(n) == n \in built_ins

(***************************************************************************)
(* The documentation role, the generic parameters and the expanded         *)
(* argument list, lines 325-514.  The prose of each entry is left out.     *)
(***************************************************************************)
\* Operation without the argc == 0 branch of line 332
OperationNoSupplier(c, v, r) ==
    IF r = "void" THEN "operation"
    ELSE IF r # "object" /\ {r} = set(v) THEN "operator"
    ELSE IF r = "boolean" THEN "predicate"
    ELSE "function"

\* lines 326-339
Operation(c, v, r) ==
    IF r = "void" THEN "operation"
    ELSE IF c = 0 THEN "operation"
    ELSE IF r # "object" /\ {r} = set(v) THEN "operator"
    ELSE IF r = "boolean" THEN "predicate"
    ELSE "function"

\* sum((1 for a in argv if a == t))
Count(v, t) == Cardinality({ i \in 1..Len(v) : v[i] = t })

\* PList with the output parameter put first
PListOutFirst(c, v, r) ==
    [n \in 1..(IF r = "object" THEN 1 ELSE 0) |-> out_params[n]]
    \o [n \in 1..Count(v, "object") |-> in_params[n]]
    \o [n \in 1..Count(v, "object[]") |-> elem_params[n]]

\* lines 364-392: the symbols of p_list
PList(c, v, r) ==
    [n \in 1..Count(v, "object") |-> in_params[n]]
    \o [n \in 1..Count(v, "object[]") |-> elem_params[n]]
    \o [n \in 1..(IF r = "object" THEN 1 ELSE 0) |-> out_params[n]]

\* lines 398-412: every argument is an object
ObjectArgs(c) == [n \in 1..c |-> << in_params[n], lower[in_params[n]], lower[in_params[n]] >>]

\* lines 418-442: one or two arguments of one scalar type
ScalarArgs(c, v, r) ==
    IF c = 1
    THEN << << v[1], IF {r} = set(v) THEN "operand" ELSE "value", "x" >> >>
    ELSE << << v[1], "left", "x" >>, << v[2], "right", "y" >> >>

\* ArgEntries without the end index of lines 507-514
ArgEntriesNoEnd(a, suf, k) ==
    IF endswith(a, "[]")
    THEN << << IF a # "object[]" THEN a ELSE elem_params[k] \o "[]",
               "array" \o suf, "arr" \o suf >>,
            << "int", "fromIndex" \o suf, "from" \o suf >> >>
    ELSE << << a, "value" \o suf, "val" \o suf >> >>

\* lines 483-514: the entries one turn of the loop of line 482 appends, for
\* the k-th argument a with suffix suf
ArgEntries(a, suf, k) ==
    IF endswith(a, "[]")
    THEN << << IF a # "object[]" THEN a ELSE elem_params[k] \o "[]",
               "array" \o suf, "arr" \o suf >>,
            << "int", "fromIndex" \o suf, "from" \o suf >>,
            << "int", "toIndex" \o suf, "to" \o suf >> >>
    ELSE << << a, "value" \o suf, "val" \o suf >> >>

\* the loop of line 482 over a_iter = repeat(a, n), turns k..n
RECURSIVE RepeatedArgs(_, _, _, _)
RepeatedArgs(a, n, numbered, k) ==
    IF k > n THEN << >>
    ELSE ArgEntries(a, IF numbered THEN str[k] ELSE "", k)
         \o RepeatedArgs(a, n, numbered, k + 1)

\* lines 444-514: a leading object and one other argument, or arguments of
\* one type
GeneralArgs(c, v) ==
    IF v[1] = "object"
    THEN << << in_params[1], "obj", "obj" >> >> \o RepeatedArgs(v[2], 1, FALSE, 1)
    ELSE RepeatedArgs(CHOOSE a \in set(v) : TRUE, c, c # 1, 1)

\* lines 396-417, 443: the branch of the a_list construction
AListBranch(c, v) ==
    IF c = 0 THEN "none"
    ELSE IF set(v) = {"object"} THEN "objects"
    ELSE IF c \in {1, 2} /\ Cardinality(set(v)) = 1 /\ ~HasArray(v) THEN "scalars"
    ELSE "general"

\* lines 394-514
AList(c, v, r) ==
    IF AListBranch(c, v) = "none" THEN << >>
    ELSE IF AListBranch(c, v) = "objects" THEN ObjectArgs(c)
    ELSE IF AListBranch(c, v) = "scalars" THEN ScalarArgs(c, v, r)
    ELSE GeneralArgs(c, v)

(***************************************************************************)
(* The assertions.  A failing one ends the script.                         *)
(***************************************************************************)
\* lines 446-447 and 467
AListAsserts(c, v) ==
    IF AListBranch(c, v) # "general" THEN TRUE
    ELSE IF v[1] = "object" THEN c = 2 /\ v[2] # "object"
    ELSE Cardinality(set(v)) = 1

\* lines 659 and 703
AndThenAsserts(c, v, r) ==
    IF r = "void" THEN TRUE
    ELSE IF r = "object" THEN out_params[1] \in set(PList(c, v, r))
    ELSE IF c = 1 /\ set(v) = {r} THEN r # "object"
    ELSE TRUE

\* lines 733 and 775
ComposeAsserts(c, v, r) ==
    IF c = 1 /\ set(v) = {"object"} THEN in_params[1] \in set(PList(c, v, r))
    ELSE IF c = 1 /\ set(v) = {r} THEN r # "object"
    ELSE TRUE

\* the assertions before the file is opened (line 896)
SynthesisAsserts(c, v, r) ==
    AListAsserts(c, v) /\ AndThenAsserts(c, v, r) /\ ComposeAsserts(c, v, r)

\* lines 965-967, while the file is written
RenderAsserts(c, v) ==
    IF c = 0 \/ c = 1 \/ Cardinality(set(v)) = 1 THEN TRUE
    ELSE c = 2 /\ v[1] = "object" /\ v[2] # "object"

(***************************************************************************)
(* The methods of the interface, lines 516-873, as the keys of the two     *)
(* dicts static_methods and instance_methods.                              *)
(***************************************************************************)
\* HasIdentity without the argc test
HasIdentityAnyArity(c, v, r) == r # "object" /\ set(v) = {r}

\* line 588
HasIdentity(c, v, r) == c = 1 /\ r # "object" /\ set(v) = {r}

\* HasStaticNegated without the argument test
HasStaticNegatedAnyArg(c, v, r) == c = 1 /\ r = "boolean"

\* line 606
HasStaticNegated(c, v, r) == c = 1 /\ r = "boolean" /\ set(v) = {"boolean"}

\* HasAndThen without the argc test of line 702
HasAndThenAnyArity(c, v, r) ==
    IF r = "void" THEN TRUE
    ELSE IF r = "object" THEN TRUE
    ELSE set(v) = {r}

\* lines 624, 657, 702: the if / elif / elif chain that sets "andThen"
HasAndThen(c, v, r) ==
    IF r = "void" THEN TRUE
    ELSE IF r = "object" THEN TRUE
    ELSE c = 1 /\ set(v) = {r}

\* HasCompose testing only the first argument in line 731
HasComposeLeadingObject(c, v, r) ==
    IF c >= 1 /\ v[1] = "object" THEN TRUE
    ELSE c = 1 /\ set(v) = {r}

\* lines 731, 774: the if / elif chain that sets "compose"
HasCompose(c, v, r) ==
    IF c = 1 /\ set(v) = {"object"} THEN TRUE
    ELSE c = 1 /\ set(v) = {r}

\* HasPredicateMethods without the all-boolean exclusion
HasPredicateMethodsAnyArgs(c, v, r) == c > 0 /\ r = "boolean"

\* line 803
HasPredicateMethods(c, v, r) == c > 0 /\ r = "boolean" /\ set(v) # {"boolean"}

StaticMethods(c, v, r) ==
    (IF HasIdentity(c, v, r) THEN {"identity"} ELSE {})
    \cup (IF HasStaticNegated(c, v, r) THEN {"negated"} ELSE {})

\* lines 546-560 set instance_methods[mthd]
InstanceMethods(c, v, r) ==
    {Mthd(c, v, r)}
    \cup (IF HasAndThen(c, v, r) THEN {"andThen"} ELSE {})
    \cup (IF HasCompose(c, v, r) THEN {"compose"} ELSE {})
    \cup (IF HasPredicateMethods(c, v, r) THEN {"and", "or", "negated"} ELSE {})

\* the number of assignments to static_methods[...] and instance_methods[...]
\* in lines 545-873
MethodAssignments(c, v, r) ==
    1
    + (IF HasIdentity(c, v, r) THEN 1 ELSE 0)
    + (IF HasStaticNegated(c, v, r) THEN 1 ELSE 0)
    + (IF HasAndThen(c, v, r) THEN 1 ELSE 0)
    + (IF HasCompose(c, v, r) THEN 1 ELSE 0)
    + (IF HasPredicateMethods(c, v, r) THEN 3 ELSE 0)

(***************************************************************************)
(* The file, lines 875-896.                                                *)
(***************************************************************************)
base_pkg == "me.dkleszyk.java.function.extra"

\* Package without the test of the return type
PackageNoRetTest(v, r) ==
    IF set(v) \subseteq {"object", "int", "long", "double"}
    THEN base_pkg
    ELSE IF HasArray(v) THEN base_pkg \o ".array"
    ELSE base_pkg \o ".primitive"

Package(v, r) ==
    IF /\ set(v) \subseteq {"object", "int", "long", "double"}
       /\ r \in {"object", "int", "long", "double", "boolean", "void"}
    THEN base_pkg
    ELSE IF HasArray(v) THEN base_pkg \o ".array"
    ELSE base_pkg \o ".primitive"

\* file_path, written relative to base_pkg_dir (the directory of line 206)
FilePath(pkg, n) ==
    (IF pkg = base_pkg THEN ""
     ELSE IF pkg = base_pkg \o ".array" THEN "array/"
     ELSE "primitive/") \o n \o ".java"

(***************************************************************************)
(* The two loops.  The argv loop takes its next turn at the start, after   *)
(* an input `continue`, and after the ret loop's last turn; the ret loop   *)
(* takes its next turn after the input filter admitted argv and after any  *)
(* of its turns but the last.  After a failed assertion no loop takes a    *)
(* turn.                                                                   *)
(***************************************************************************)
ArgvLoopTurn ==
    \/ pc = "start"
    \/ pc = "argv" /\ outcome # "admitted"
    \/ pc = "ret" /\ outcome # "aborted" /\ ret = types[Len(types)]

RetLoopTurn ==
    \/ pc = "argv" /\ outcome = "admitted"
    \/ pc = "ret" /\ outcome # "aborted" /\ ret # types[Len(types)]

\* both loops are exhausted
Exhausted == pc # "start" /\ LastTuple(argv) /\ argc = MaxArgc

NextArgc == IF pc = "start" THEN 0 ELSE IF LastTuple(argv) THEN argc + 1 ELSE argc

NextArgv ==
    IF pc = "start" THEN << >>
    ELSE IF LastTuple(argv) THEN FirstTuple(argc + 1)
    ELSE NextTuple(argv)

NextRet == IF pc = "argv" THEN types[1] ELSE types[TypeIndex(ret) + 1]

locals == <<name, mthd, static_methods, instance_methods, package,
            operation, p_list, a_list>>

Init ==
    /\ pc = "start"
    /\ argc = 0
    /\ argv = << >>
    /\ ret = types[1]
    /\ outcome = "none"
    /\ names = << >>
    /\ files = {}
    /\ name = ""
    /\ mthd = ""
    /\ static_methods = {}
    /\ instance_methods = {}
    /\ package = ""
    /\ operation = ""
    /\ p_list = << >>
    /\ a_list = << >>

\* a turn of the argv loop that ends in one of the `continue`s of lines 220-232
RejectInput ==
    /\ ArgvLoopTurn /\ ~Exhausted
    /\ FilterInput(NextArgc, NextArgv) # "admitted"
    /\ pc' = "argv"
    /\ argc' = NextArgc
    /\ argv' = NextArgv
    /\ outcome' = FilterInput(NextArgc, NextArgv)
    /\ UNCHANGED <<ret, names, files, locals>>

\* a turn of the argv loop that reaches the ret loop (line 234)
AdmitInput ==
    /\ ArgvLoopTurn /\ ~Exhausted
    /\ FilterInput(NextArgc, NextArgv) = "admitted"
    /\ pc' = "argv"
    /\ argc' = NextArgc
    /\ argv' = NextArgv
    /\ outcome' = "admitted"
    /\ UNCHANGED <<ret, names, files, locals>>

\* a turn of the ret loop that ends in one of the `continue`s of lines 236-262
RejectOutput ==
    /\ RetLoopTurn
    /\ FilterOutput(argc, argv, NextRet) # "admitted"
    /\ pc' = "ret"
    /\ ret' = NextRet
    /\ outcome' = FilterOutput(argc, argv, NextRet)
    /\ UNCHANGED <<argc, argv, names, files, locals>>

\* a turn of the ret loop that ends in the `continue` of line 321
SkipBuiltIn ==
    /\ RetLoopTurn
    /\ FilterOutput(argc, argv, NextRet) = "admitted"
    /\ IsBuiltIn(Name(argc, argv, NextRet))
    /\ pc' = "ret"
    /\ ret' = NextRet
    /\ outcome' = "built_in"
    /\ name' = Name(argc, argv, NextRet)
    /\ mthd' = Mthd(argc, argv, NextRet)
    /\ UNCHANGED <<argc, argv, names, files, static_methods, instance_methods,
                   package, operation, p_list, a_list>>

\* a turn of the ret loop that takes no `continue`: lines 323-1007.  It runs
\* to its end and writes the file, or ends the script at a failed assertion:
\* before the file is opened (line 896) or while it is written.
Emit ==
    /\ RetLoopTurn
    /\ FilterOutput(argc, argv, NextRet) = "admitted"
    /\ ~IsBuiltIn(Name(argc, argv, NextRet))
    /\ pc' = "ret"
    /\ ret' = NextRet
    /\ outcome' = IF SynthesisAsserts(argc, argv, NextRet) /\ RenderAsserts(argc, argv)
                  THEN "emitted" ELSE "aborted"
    /\ name' = Name(argc, argv, NextRet)
    /\ mthd' = Mthd(argc, argv, NextRet)
    /\ names' = Append(names, Name(argc, argv, NextRet))
    /\ operation' = Operation(argc, argv, NextRet)
    /\ p_list' = PList(argc, argv, NextRet)
    /\ a_list' = IF AListAsserts(argc, argv) THEN AList(argc, argv, NextRet) ELSE a_list
    /\ IF SynthesisAsserts(argc, argv, NextRet)
       THEN /\ static_methods' = StaticMethods(argc, argv, NextRet)
            /\ instance_methods' = InstanceMethods(argc, argv, NextRet)
            /\ package' = Package(argv, NextRet)
            /\ files' = files \cup {FilePath(Package(argv, NextRet), Name(argc, argv, NextRet))}
       ELSE UNCHANGED <<static_methods, instance_methods, package, files>>
    /\ UNCHANGED <<argc, argv>>

\* the loops are over: lines 1009-1010
Finish ==
    /\ ArgvLoopTurn /\ Exhausted
    /\ pc' = "done"
    /\ UNCHANGED <<argc, argv, ret, outcome, names, files, locals>>

Next ==
    \/ RejectInput
    \/ AdmitInput
    \/ RejectOutput
    \/ SkipBuiltIn
    \/ Emit
    \/ Finish

Spec == Init /\ [][Next]_vars

(***************************************************************************)
(* Properties.                                                             *)
(***************************************************************************)
\* the last turn of the ret loop passed the return filter
PassedOutput == pc = "ret" /\ outcome \in {"built_in", "emitted"}

\* the last turn wrote a file
Emitted == pc = "ret" /\ outcome = "emitted"

\* the positions of v that hold an array segment type
ArraySegments(v) == { i \in 1..Len(v) : endswith(v[i], "[]") }

\* C1: after every append to `names`, and when the run is over, the names
\* appended so far are pairwise distinct and none of them is in built_ins, so
\* every write went to a file of its own.
C1_NamesDistinct ==
    (Emitted \/ pc = "done") =>
        /\ Cardinality({ names[i] : i \in 1..Len(names) }) = Len(names)
        /\ \A i \in 1..Len(names) : names[i] \notin built_ins
        /\ Cardinality(files) = Len(names)

\* the run has named signatures of arity 0, 1, 2 and 3, and skipped built-ins
C1_Witness ==
    /\ Emitted /\ argc = 3
    /\ Len(names) > 200
    /\ Cardinality(files) = Len(names)

\* v is uniform, or a leading object followed only by one other type
ArgShape(v) ==
    \/ Cardinality(set(v)) = 1
    \/ \E X \in set(v) :
          /\ X # "object"
          /\ set(v) = {"object", X}
          /\ v[1] = "object"
          /\ \A i \in 2..Len(v) : v[i] = X

\* C2: every emitted signature with argc > 1 has an argument tuple that is
\* uniform or (object, X, ..., X), and no tuple of that shape is rejected by
\* the mixed-argument rule.
C2_ArgShape ==
    /\ (Emitted /\ argc > 1) => ArgShape(argv)
    /\ (pc = "argv" /\ argc > 1 /\ ArgShape(argv)) => outcome # "mixed"

C2_Witness == Emitted /\ argv = << "object", "byte" >>

\* C3: every emitted signature with argc > 2 has only object arguments: none
\* with a primitive or array segment argument has more than two arguments.
C3_ExtendedArity ==
    /\ (Emitted /\ argc > 2) => \A i \in 1..Len(argv) : argv[i] = "object"
    /\ (pc = "argv" /\ outcome = "admitted" /\ argc > 2)
           => \A i \in 1..Len(argv) : argv[i] = "object"
    /\ (Emitted /\ \E i \in 1..Len(argv) : argv[i] # "object") => argc <= 2

C3_Witness == Emitted /\ argc = 3 /\ argv = << "object", "object", "object" >>

\* C4: a candidate with two or more array segment arguments, equal or not,
\* never reaches the ret loop, and every emitted signature has at most one.
C4_ArrayArity ==
    /\ (pc \in {"argv", "ret"} /\ Cardinality(ArraySegments(argv)) >= 2)
           => (pc = "argv" /\ outcome \in {"mixed", "arity", "arrays"})
    /\ Emitted => Cardinality(ArraySegments(argv)) <= 1

C4_Witness == pc = "argv" /\ argv = << "int[]", "int[]" >> /\ outcome = "arrays"

\* C5: no emitted signature returns an array segment, and a signature with
\* an array segment argument passes the return filter iff its return type is
\* object, boolean, void, int, long or double, or the element type of an
\* array segment argument.
C5_ArrayRet ==
    /\ Emitted => ~endswith(ret, "[]")
    /\ (pc = "ret" /\ ArraySegments(argv) # {})
           => (PassedOutput <=>
                  \/ ret \in {"object", "boolean", "void", "int", "long", "double"}
                  \/ \E i \in 1..Len(argv) : argv[i] = ret \o "[]")

C5_Witness == Emitted /\ argv = << "byte[]" >> /\ ret = "byte"

\* C6: with no array segment argument and argc > 1, a return type that is not
\* object, boolean or void and is no argument type is rejected, except for
\* argc <= 2 with only object arguments, where every non-array return type
\* passes the return filter.
C6_ScalarRet ==
    /\ (/\ pc = "ret"
        /\ ArraySegments(argv) = {}
        /\ argc > 1
        /\ ret \notin {"object", "boolean", "void"}
        /\ \A i \in 1..Len(argv) : argv[i] # ret)
           => IF argc <= 2 /\ \A i \in 1..Len(argv) : argv[i] = "object"
              THEN PassedOutput <=> ~endswith(ret, "[]")
              ELSE ~PassedOutput
    /\ (pc = "ret" /\ argv = << "object", "object" >>)
           => (PassedOutput <=> ~endswith(ret, "[]"))

C6_Witness == Emitted /\ argv = << "object", "object" >> /\ ret = "byte"

\* C7: for argc > 2 the only return types emitted are object and boolean; a
\* three- or four-argument all-object signature returning void is rejected.
C7_ExtendedRet ==
    /\ (Emitted /\ argc > 2) => ret \in {"object", "boolean"}
    /\ (pc = "ret" /\ argc > 2 /\ ret = "void") => ~PassedOutput

C7_Witness ==
    /\ pc = "ret" /\ argc = 3 /\ ret = "void"
    /\ argv = << "object", "object", "object" >>
    /\ outcome = "extended_ret"

\* the operator role: the name ends in "Operator"
OperatorRole == endswith(name, "Operator")

\* C8 as claimed: every emitted operator has argc = 1 and returns the type of
\* its first argument.
C8_OperatorUnary ==
    (Emitted /\ OperatorRole) => (argc = 1 /\ ret = argv[1])

\* C8 as amended: an emitted descriptor is an operator iff its return type
\* is not object and its argument types are all the return type, and then it
\* has one or two arguments.
C8_OperatorUnaryOrBinary ==
    Emitted =>
        /\ OperatorRole <=> (ret # "object" /\ set(argv) = {ret})
        /\ OperatorRole =>
              /\ argc \in {1, 2}
              /\ \A i \in 1..Len(argv) : argv[i] = ret

C8_Witness == Emitted /\ OperatorRole /\ argc = 2 /\ argv = << "byte", "byte" >>

\* C9: an emitted descriptor has the static method identity iff argc = 1, the
\* return type is not object and the argument type is the return type; only
\* unary operators carry it.
C9_Identity ==
    Emitted =>
        /\ "identity" \in static_methods
              <=> (argc = 1 /\ ret # "object" /\ argv[1] = ret)
        /\ "identity" \in static_methods <=> endswith(name, "UnaryOperator")
        /\ "identity" \notin instance_methods

C9_Witness == Emitted /\ "identity" \in static_methods /\ argv = << "byte" >>

\* C10: an emitted descriptor has the instance methods and, or and negated,
\* all three or none, and has them iff argc > 0, the return type is boolean
\* and the argument types are not all boolean: iff its name ends in
\* "Predicate".
C10_Logical ==
    Emitted =>
        /\ \/ {"and", "or", "negated"} \subseteq instance_methods
           \/ {"and", "or", "negated"} \cap instance_methods = {}
        /\ "and" \in instance_methods
              <=> (argc > 0 /\ ret = "boolean" /\ set(argv) # {"boolean"})
        /\ "and" \in instance_methods <=> endswith(name, "Predicate")

C10_Witness ==
    /\ Emitted /\ endswith(name, "Predicate")
    /\ argv = << "byte", "byte" >>
    /\ {"and", "or", "negated"} \subseteq instance_methods

\* C11: an emitted descriptor has andThen iff it returns void (action), or
\* returns object (function, or supplier of an object), or is a unary
\* operator; binary operators, predicates, suppliers of a primitive and
\* To...Function descriptors never have it.
C11_AndThen ==
    Emitted =>
        /\ "andThen" \in instance_methods
              <=> \/ ret = "void"
                  \/ ret = "object"
                  \/ argc = 1 /\ argv[1] = ret
        /\ "andThen" \in instance_methods
              <=> \/ name = "Runnable"
                  \/ endswith(name, "Consumer")
                  \/ endswith(name, "Supplier") /\ mthd = "get"
                  \/ endswith(name, "Function") /\ mthd = "apply"
                  \/ endswith(name, "UnaryOperator")
        /\ "andThen" \notin static_methods

C11_Witness ==
    /\ Emitted /\ argv = << "byte" >> /\ ret = "void"
    /\ "andThen" \in instance_methods

\* C12: an emitted descriptor has compose iff argc = 1 and the argument is
\* object or of the return type; a two-argument (object, X) -> object
\* descriptor has andThen and no compose.
C12_Compose ==
    Emitted =>
        /\ "compose" \in instance_methods
              <=> (argc = 1 /\ (argv[1] = "object" \/ argv[1] = ret))
        /\ (argc = 2 /\ argv[1] = "object" /\ ret = "object")
              => /\ "andThen" \in instance_methods
                 /\ "compose" \notin instance_methods
        /\ "compose" \notin static_methods

C12_Witness ==
    /\ Emitted /\ argv = << "object", "byte" >> /\ ret = "object"
    /\ "andThen" \in instance_methods
    /\ "compose" \notin instance_methods

\* C13 as claimed: the candidate with argc = 0 and return type void yields
\* exactly one emitted descriptor, with method name "run" and with andThen.
C13_RunnableEmitted ==
    (pc = "ret" /\ argc = 0 /\ ret = "void")
        => /\ outcome = "emitted"
           /\ names = << name >>
           /\ mthd = "run"
           /\ "andThen" \in instance_methods

\* C13 as amended: the candidate with argc = 0 and return type void is named
\* Runnable with method name "run"; Runnable is a reserved name, so the
\* candidate yields no entry in `names` and no file, and Runnable is never
\* the name of an emitted descriptor.
C13_RunnableReserved ==
    /\ (pc = "ret" /\ argc = 0 /\ ret = "void")
           => /\ outcome = "built_in"
              /\ name = "Runnable"
              /\ mthd = "run"
              /\ names = << >>
              /\ files = {}
    /\ Emitted => name # "Runnable"

C13_Witness ==
    /\ pc = "ret" /\ argc = 0 /\ ret = "void"
    /\ outcome = "built_in" /\ name = "Runnable"

\* the types of the base package
CoreArgs == {"object", "int", "long", "double"}

CoreRets == {"object", "int", "long", "double", "boolean", "void"}

\* C14 as claimed: every emitted descriptor without an array segment argument
\* is in the base package; a descriptor is in the array package iff some
\* argument is an array segment; the three packages partition the descriptors.
C14_ScalarIsCore ==
    Emitted =>
        /\ ArraySegments(argv) = {} => package = base_pkg
        /\ package = base_pkg \o ".array" <=> ArraySegments(argv) # {}
        /\ package \in {base_pkg, base_pkg \o ".array", base_pkg \o ".primitive"}

\* C14 as amended: an emitted descriptor is in the base package iff its
\* argument types are all among object, int, long, double and its return type
\* is among object, int, long, double, boolean, void; it is in the array
\* package iff some argument is an array segment; it is in the primitive
\* package otherwise; the three packages partition the descriptors.
C14_Groups ==
    Emitted =>
        /\ package = base_pkg
              <=> /\ \A i \in 1..Len(argv) : argv[i] \in CoreArgs
                  /\ ret \in CoreRets
        /\ package = base_pkg \o ".array" <=> ArraySegments(argv) # {}
        /\ package = base_pkg \o ".primitive"
              <=> /\ ArraySegments(argv) = {}
                  /\ ~(/\ \A i \in 1..Len(argv) : argv[i] \in CoreArgs
                       /\ ret \in CoreRets)
        /\ package \in {base_pkg, base_pkg \o ".array", base_pkg \o ".primitive"}
        /\ FilePath(package, name) \in files

C14_Witness ==
    /\ Emitted /\ argv = << "int" >> /\ ret = "byte"
    /\ package = base_pkg \o ".primitive"

\* C15: no assertion fails: every signature that passes both filters and
\* whose name is not reserved is synthesized, appended to `names` and written.
C15_Totality ==
    /\ outcome # "aborted"
    /\ (pc = "ret" /\ outcome \notin {"ret_array", "array_ret", "scalar_ret",
                                      "extended_ret", "built_in"})
           => /\ outcome = "emitted"
              /\ Len(names) > 0
              /\ names[Len(names)] = name
              /\ FilePath(package, name) \in files
              /\ Len(a_list) >= argc

\* a leading object with one array segment: the assertions of lines 446-447,
\* 659 and 965-967 were evaluated and held
C15_Witness ==
    /\ Emitted /\ argv = << "object", "byte[]" >> /\ ret = "object"
    /\ names[Len(names)] = "ObjByteArraySegmentFunction"

\* C16: the argument list of an emitted signature has argc + 2k entries, k
\* the number (0 or 1) of array segment arguments; each array entry is
\* followed by the int entries fromIndex and toIndex; the abbreviated names
\* are pairwise distinct.
C16_ArgumentList ==
    Emitted =>
        /\ Cardinality(ArraySegments(argv)) \in {0, 1}
        /\ Len(a_list) = argc + 2 * Cardinality(ArraySegments(argv))
        /\ Cardinality({ i \in 1..Len(a_list) : endswith(a_list[i][1], "[]") })
              = Cardinality(ArraySegments(argv))
        /\ \A i \in 1..Len(a_list) :
              endswith(a_list[i][1], "[]")
                  => /\ i + 2 <= Len(a_list)
                     /\ a_list[i + 1][1] = "int" /\ a_list[i + 1][2] = "fromIndex"
                     /\ a_list[i + 2][1] = "int" /\ a_list[i + 2][2] = "toIndex"
        /\ Cardinality({ a_list[i][3] : i \in 1..Len(a_list) }) = Len(a_list)

C16_Witness ==
    /\ Emitted /\ argv = << "object", "object[]" >>
    /\ Len(a_list) = 4

\* C17: the generic parameters of an emitted signature are, in this order,
\* T, U, V, W for the object arguments (which lead the tuple), E for an
\* object[] argument, and R iff the return type is object; they are pairwise
\* distinct.  (object, X) -> object with a scalar X has exactly T, R.
C17_GenericParameters ==
    Emitted =>
        LET nObj == Cardinality({ i \in 1..Len(argv) : argv[i] = "object" })
            nArr == Cardinality({ i \in 1..Len(argv) : argv[i] = "object[]" })
            nOut == IF ret = "object" THEN 1 ELSE 0
        IN  /\ Len(p_list) = nObj + nArr + nOut
            /\ \A n \in 1..nObj :
                  argv[n] = "object" /\ p_list[n] = << "T", "U", "V", "W" >>[n]
            /\ nArr \in {0, 1}
            /\ nArr = 1 => p_list[nObj + 1] = "E"
            /\ nOut = 1 => p_list[Len(p_list)] = "R"
            /\ Cardinality({ p_list[i] : i \in 1..Len(p_list) }) = Len(p_list)
            /\ (/\ argc = 2 /\ argv[1] = "object" /\ ret = "object"
                /\ argv[2] # "object" /\ ~endswith(argv[2], "[]"))
                  => p_list = << "T", "R" >>

C17_Witness ==
    /\ Emitted /\ argv = << "object", "byte" >> /\ ret = "object"
    /\ p_list = << "T", "R" >>

\* C19: the role noun of the documentation agrees with the suffix of the
\* name: "operation" for Runnable, Supplier and Consumer, "operator" for
\* Operator, "predicate" for Predicate, "function" for Function.
C19_RolesAgree ==
    Emitted =>
        /\ operation = "operation"
              <=> \/ name = "Runnable"
                  \/ endswith(name, "Supplier")
                  \/ endswith(name, "Consumer")
        /\ operation = "operator" <=> endswith(name, "Operator")
        /\ operation = "predicate" <=> endswith(name, "Predicate")
        /\ operation = "function" <=> endswith(name, "Function")
        /\ operation \in {"operation", "operator", "predicate", "function"}

\* a supplier: the naming chain decides on argc == 0 first, the documentation
\* chain only after ret == "void"
C19_Witness ==
    /\ Emitted /\ argc = 0 /\ ret = "byte"
    /\ name = "ByteSupplier" /\ operation = "operation"

CapabilityKeys == {"identity", "negated", "andThen", "compose", "and", "or"}

\* C20: in an emitted descriptor the static and the instance `negated` are
\* never both present, no capability key is the primary method name, and the
\* number of methods rendered is the number of assignments made: 1 + the
\* number of admitted capabilities.
C20_NoOverwrite ==
    Emitted =>
        /\ ~("negated" \in static_methods /\ "negated" \in instance_methods)
        /\ mthd \notin CapabilityKeys
        /\ mthd \in instance_methods
        /\ Cardinality(static_methods) + Cardinality(instance_methods)
              = MethodAssignments(argc, argv, ret)
        /\ Cardinality(static_methods) + Cardinality(instance_methods)
              = 1 + Cardinality(static_methods \cap CapabilityKeys)
                  + Cardinality(instance_methods \cap CapabilityKeys)

C20_Witness ==
    /\ Emitted /\ argv = << "boolean" >> /\ ret = "boolean"
    /\ "negated" \in static_methods
    /\ "negated" \notin instance_methods

\* sub occurs in s
Contains(s, sub) ==
    \E i \in 1..(Len(s) - Len(sub) + 1) : SubSeq(s, i, i + Len(sub) - 1) = sub

\* C21: for every signature that passes both filters, the name and the method
\* name do not contain "None": type_names is never read at "void",
\* fn_ordinals and op_ordinals are only read at argc >= 1; for every emitted
\* signature cnt_ordinals is only read at argc >= 2.
C21_NoUndefinedFragment ==
    /\ PassedOutput =>
          /\ ~Contains(name, None)
          /\ ~Contains(mthd, None)
          /\ \A t \in TypeNameLookups(argc, argv, ret) :
                t # "void" /\ type_names[t] # None
          /\ \A n \in OrdinalLookups(argc, argv, ret) :
                n >= 1 /\ fn_ordinals[n] # None /\ op_ordinals[n] # None
    /\ Emitted =>
          \A n \in CntOrdinalLookups(argc, argv) :
              n >= 2 /\ cnt_ordinals[n] # None

\* two arguments of one type: all three ordinal tables are read at 2
C21_Witness ==
    /\ Emitted /\ argv = << "byte", "byte" >> /\ ret = "byte"
    /\ name = "ByteBinaryOperator" /\ mthd = "applyAsByte"
    /\ OrdinalLookups(argc, argv, ret) = {2}
    /\ CntOrdinalLookups(argc, argv) = {2}

====
